---- MODULE Spec2Model ----
(***************************************************************************)
(* Model of provider/provider.go: BaseProvider.MatchConstraints,           *)
(* BaseProvider.GetConfiguration, getTemplateContent, split, Normalize and *)
(* ReverseStringSlice.                                                     *)
(*                                                                         *)
(* Go strings are modelled as sequences of one-character strings, so that  *)
(* HasSuffix, Split, FieldsFunc and Join are computed character by         *)
(* character.  A pointer into p.Constraints is modelled by the index of    *)
(* the element it points to; 0 is the nil pointer.                         *)
(***************************************************************************)
EXTENDS Integers, Sequences, FiniteSets, TLC

VARIABLES p, call, ret

vars == <<p, call, ret>>

(* ---------------------------------------------------------------------- *)
(* Bounds                                                                  *)
(* ---------------------------------------------------------------------- *)
MaxTags == 2
MaxConstraints == 3
MaxStrLen == 4
MaxSliceLen == 4

RECURSIVE SeqsUpTo(_, _)
SeqsUpTo(S, n) ==
    IF n = 0 THEN {<<>>}
    ELSE LET shorter == SeqsUpTo(S, n - 1)
         IN  shorter \cup {Append(s, x) : s \in {t \in shorter : Len(t) = n - 1}, x \in S}

Nil == [nil |-> TRUE]
\* No call has been made on the provider yet; the functions modelled keep
\* no state between calls, so every behaviour is one call and its result.
NoCall == [op |-> "none"]

(* ---------------------------------------------------------------------- *)
(* Constraint matching                                                     *)
(* ---------------------------------------------------------------------- *)
TagValues == {"a", "b"}
Patterns == {"a", "b", "*"}
ConstraintValues == [Regex : Patterns, MustMatch : BOOLEAN]

\* One tag against one constraint pattern: "*" is the wildcard, any other
\* pattern is compared literally.
TagMatches(pattern, tag) == pattern = "*" \/ pattern = tag

\* types.Constraint.MatchConstraintWithAtLeastOneTag
MatchConstraintWithAtLeastOneTag(constraint, tags) ==
    \E k \in 1..Len(tags) : TagMatches(constraint.Regex, tags[k])

\* Variant: the comparison with MustMatch is dropped (a constraint fails
\* whenever no tag matches it).
RECURSIVE MatchLoopIgnoreMustMatch(_, _, _)
MatchLoopIgnoreMustMatch(constraints, tags, i) ==
    IF i > Len(constraints) THEN [matched |-> TRUE, constraint |-> 0]
    ELSE IF ~MatchConstraintWithAtLeastOneTag(constraints[i], tags)
         THEN [matched |-> FALSE, constraint |-> i]
         ELSE MatchLoopIgnoreMustMatch(constraints, tags, i + 1)

\* Variant: the success return sits inside the loop body, so only the
\* first constraint is ever examined.
MatchLoopReturnInside(constraints, tags, i) ==
    IF i > Len(constraints) THEN [matched |-> TRUE, constraint |-> 0]
    ELSE IF MatchConstraintWithAtLeastOneTag(constraints[i], tags) # constraints[i].MustMatch
         THEN [matched |-> FALSE, constraint |-> i]
         ELSE [matched |-> TRUE, constraint |-> 0]

\* The range loop of MatchConstraints from index i on.
RECURSIVE MatchLoop(_, _, _)
MatchLoop(constraints, tags, i) ==
    IF i > Len(constraints) THEN [matched |-> TRUE, constraint |-> 0]
    ELSE IF MatchConstraintWithAtLeastOneTag(constraints[i], tags) # constraints[i].MustMatch
         THEN [matched |-> FALSE, constraint |-> i]
         ELSE MatchLoop(constraints, tags, i + 1)

\* Variant: the "filtering disabled" test uses || instead of &&.
MatchConstraintsEitherEmpty(prov, tags) ==
    IF Len(tags) = 0 \/ Len(prov.Constraints) = 0
    THEN [matched |-> TRUE, constraint |-> 0]
    ELSE MatchLoop(prov.Constraints, tags, 1)

MatchConstraints(prov, tags) ==
    IF Len(tags) = 0 /\ Len(prov.Constraints) = 0
    THEN [matched |-> TRUE, constraint |-> 0]
    ELSE MatchLoop(prov.Constraints, tags, 1)

BaseProvider(filename, constraints, debug) ==
    [Filename |-> filename, Constraints |-> constraints,
     DebugLogGeneratedTemplate |-> debug]

InitMatch ==
    /\ p \in {BaseProvider(<<>>, c, FALSE) : c \in SeqsUpTo(ConstraintValues, MaxConstraints)}
    /\ call = NoCall
    /\ ret = Nil

MatchConstraintsCall ==
    \E tags \in SeqsUpTo(TagValues, MaxTags) :
        /\ call = NoCall
        /\ call' = [op |-> "MatchConstraints", tags |-> tags]
        /\ ret' = MatchConstraints(p, tags)
        /\ UNCHANGED p

NextMatch == MatchConstraintsCall

SpecMatch == InitMatch /\ [][NextMatch]_vars

\* "Some tag in T matches c", stated directly.
SomeTagMatches(c, T) == \E t \in {T[k] : k \in 1..Len(T)} : TagMatches(c.Regex, t)

\* Constraint number i of C is satisfied by the tags T.
Satisfied(C, T, i) == SomeTagMatches(C[i], T) = C[i].MustMatch

MatchCalled == call.op = "MatchConstraints"

\* C1: MatchConstraints returns (true, nil) exactly when every constraint
\* c satisfies (some tag matches c) = c.MustMatch; otherwise it returns
\* (false, c*) with c* the lowest-indexed constraint that is not satisfied.
\* An empty constraint list gives (true, nil) for any tags.
C1_MatchResult ==
    MatchCalled =>
        LET C == p.Constraints
            T == call.tags
        IN  /\ ret.matched = (\A i \in 1..Len(C) : Satisfied(C, T, i))
            /\ ret.matched => ret.constraint = 0
            /\ ~ret.matched =>
                  /\ ret.constraint \in 1..Len(C)
                  /\ ~Satisfied(C, T, ret.constraint)
                  /\ \A j \in 1..(ret.constraint - 1) : Satisfied(C, T, j)
            /\ Len(C) = 0 => ret = [matched |-> TRUE, constraint |-> 0]

\* A call in which the first constraint is satisfied and a later one fails.
C1_Witness ==
    /\ MatchCalled
    /\ ~ret.matched
    /\ ret.constraint >= 2
    /\ Len(call.tags) > 0

Permuted(C, f) == [i \in 1..Len(C) |-> C[f[i]]]

\* C3: the boolean result does not depend on the order of the constraints:
\* every permutation of p.Constraints gives the same matched value for the
\* same tags.
C3_OrderIndependent ==
    MatchCalled =>
        \A f \in Permutations(1..Len(p.Constraints)) :
            MatchConstraints([p EXCEPT !.Constraints = Permuted(p.Constraints, f)],
                             call.tags).matched = ret.matched

\* A failing call for which some reordering reports a different constraint.
C3_Witness ==
    /\ MatchCalled
    /\ ~ret.matched
    /\ \E f \in Permutations(1..Len(p.Constraints)) :
          LET C2 == Permuted(p.Constraints, f)
              r2 == MatchConstraints([p EXCEPT !.Constraints = C2], call.tags)
          IN  ~r2.matched /\ C2[r2.constraint] # p.Constraints[ret.constraint]

(* ---------------------------------------------------------------------- *)
(* GetConfiguration                                                        *)
(* ---------------------------------------------------------------------- *)
TmplSuffix == <<".", "t", "m", "p", "l">>

\* strings.HasSuffix
HasSuffix(s, suffix) ==
    /\ Len(s) >= Len(suffix)
    /\ SubSeq(s, Len(s) - Len(suffix) + 1, Len(s)) = suffix

\* Files present on disk (path -> contents); any other path cannot be read.
FileSystem ==
    (<<"f">> :> <<"F">>) @@ ((<<"k">> \o TmplSuffix) :> <<"O">>)

\* Embedded template assets (name -> contents).
Assets ==
    ((<<"k">> \o TmplSuffix) :> <<"K">>) @@ (TmplSuffix :> <<"D">>)

Filenames == {<<>>, <<"f">>, <<"g">>, <<"k">> \o TmplSuffix}
TemplateFiles ==
    {<<>>, <<"x">>, TmplSuffix, <<"k">> \o TmplSuffix, <<"m">> \o TmplSuffix,
     TmplSuffix \o <<"x">>, <<"t", "m", "p", "l">>}

\* ioutil.ReadFile
ReadFile(path) ==
    IF path \in DOMAIN FileSystem
    THEN [buf |-> FileSystem[path], err |-> Nil]
    ELSE [buf |-> <<>>, err |-> [from |-> "ReadFile", arg |-> path]]

\* gentemplates.Asset
Asset(name) ==
    IF name \in DOMAIN Assets
    THEN [buf |-> Assets[name], err |-> Nil]
    ELSE [buf |-> <<>>, err |-> [from |-> "Asset", arg |-> name]]

\* An entry of the history of calls made to collaborators.
Event(ev, arg, ok) == [ev |-> ev, arg |-> arg, ok |-> ok]

\* Variant: a failed read of the override file falls through to the
\* built-in asset or the literal text instead of returning the error.
getTemplateContentFallback(prov, defaultTemplateFile) ==
    LET rd == ReadFile(prov.Filename)
        as == Asset(defaultTemplateFile)
    IN  IF Len(prov.Filename) > 0 /\ rd.err = Nil
        THEN [content |-> rd.buf, err |-> Nil,
              io |-> <<Event("ReadFile", prov.Filename, TRUE)>>]
        ELSE IF HasSuffix(defaultTemplateFile, TmplSuffix)
        THEN IF as.err # Nil
             THEN [content |-> <<>>, err |-> as.err,
                   io |-> <<Event("Asset", defaultTemplateFile, FALSE)>>]
             ELSE [content |-> as.buf, err |-> Nil,
                   io |-> <<Event("Asset", defaultTemplateFile, TRUE)>>]
        ELSE [content |-> defaultTemplateFile, err |-> Nil, io |-> <<>>]

\* BaseProvider.getTemplateContent; io is the read it performed, if any.
getTemplateContent(prov, defaultTemplateFile) ==
    LET rd == ReadFile(prov.Filename)
        as == Asset(defaultTemplateFile)
    IN  IF Len(prov.Filename) > 0
        THEN IF rd.err # Nil
             THEN [content |-> <<>>, err |-> rd.err,
                   io |-> <<Event("ReadFile", prov.Filename, FALSE)>>]
             ELSE [content |-> rd.buf, err |-> Nil,
                   io |-> <<Event("ReadFile", prov.Filename, TRUE)>>]
        ELSE IF HasSuffix(defaultTemplateFile, TmplSuffix)
        THEN IF as.err # Nil
             THEN [content |-> <<>>, err |-> as.err,
                   io |-> <<Event("Asset", defaultTemplateFile, FALSE)>>]
             ELSE [content |-> as.buf, err |-> Nil,
                   io |-> <<Event("Asset", defaultTemplateFile, TRUE)>>]
        ELSE [content |-> defaultTemplateFile, err |-> Nil, io |-> <<>>]

\* Function namespaces map a template function name to the function bound
\* to it, identified by the package it comes from and its name there.
Func(from, name) == [from |-> from, name |-> name]

\* sprig.TxtFuncMap(): the part of the library that matters here, with its
\* own "split" and "lower".
SprigNames == {"lower", "upper", "split"}
TxtFuncMap == [n \in SprigNames |-> Func("sprig", n)]

\* m[k] = v on a Go map
Put(m, k, v) == [n \in DOMAIN m \cup {k} |-> IF n = k THEN v ELSE m[n]]

\* for k, v := range src { dst[k] = v }
PutAll(dst, src) ==
    [n \in DOMAIN dst \cup DOMAIN src |-> IF n \in DOMAIN src THEN src[n] ELSE dst[n]]

\* Variant: the caller's functions are copied in first and the three
\* built-in overrides are assigned afterwards.
BuildFuncMapOverridesLast(funcMap) ==
    LET m0 == PutAll(TxtFuncMap, funcMap)
        m1 == Put(m0, "tolower", Func("strings", "ToLower"))
        m2 == Put(m1, "normalize", Func("provider", "Normalize"))
    IN  Put(m2, "split", Func("provider", "split"))

\* The construction of defaultFuncMap in GetConfiguration.
BuildFuncMap(funcMap) ==
    LET m1 == Put(TxtFuncMap, "tolower", Func("strings", "ToLower"))
        m2 == Put(m1, "normalize", Func("provider", "Normalize"))
        m3 == Put(m2, "split", Func("provider", "split"))
    IN  PutAll(m3, funcMap)

\* What text/template and toml produce, as opaque values.
Rendered(text, templateObjects) == [text |-> text, data |-> templateObjects]
Configuration(rendered) == [decodedFrom |-> rendered]

Result(configuration, err, trace, funcs) ==
    [configuration |-> configuration, err |-> err, trace |-> trace, funcs |-> funcs]

\* Variant: the rendered text is logged only after it has been decoded.
DebugAndDecodeLogLate(prov, defaultTemplateFile, rendered, trace, funcs, env) ==
    LET t2 == Append(trace, Event("Decode", rendered, env.decodeOk))
    IN  IF ~env.decodeOk
        THEN Result(Nil, [from |-> "Decode", arg |-> rendered], t2, funcs)
        ELSE Result(Configuration(rendered), Nil,
                    IF prov.DebugLogGeneratedTemplate
                    THEN Append(t2, Event("Debugf", <<defaultTemplateFile, rendered>>, TRUE))
                    ELSE t2,
                    funcs)

\* The tail of GetConfiguration: optional debug log, then toml.Decode.
DebugAndDecode(prov, defaultTemplateFile, rendered, trace, funcs, env) ==
    LET t1 == IF prov.DebugLogGeneratedTemplate
              THEN Append(trace, Event("Debugf", <<defaultTemplateFile, rendered>>, TRUE))
              ELSE trace
        t2 == Append(t1, Event("Decode", rendered, env.decodeOk))
    IN  IF ~env.decodeOk
        THEN Result(Nil, [from |-> "Decode", arg |-> rendered], t2, funcs)
        ELSE Result(Configuration(rendered), Nil, t2, funcs)

\* Variant: the error returned by tmpl.Parse is not checked.
GetConfigurationParseUnchecked(prov, defaultTemplateFile, funcMap, templateObjects, env) ==
    LET funcs == BuildFuncMap(funcMap)
        tc == getTemplateContent(prov, defaultTemplateFile)
        t0 == <<Event("getTemplateContent", defaultTemplateFile, tc.err = Nil)>> \o tc.io
        t1 == Append(t0, Event("Parse", tc.content, env.parseOk))
        t2 == Append(t1, Event("Execute", templateObjects, env.executeOk))
    IN  IF tc.err # Nil THEN Result(Nil, tc.err, t0, funcs)
        ELSE IF ~env.executeOk
        THEN Result(Nil, [from |-> "Execute", arg |-> tc.content], t2, funcs)
        ELSE DebugAndDecode(prov, defaultTemplateFile,
                            Rendered(tc.content, templateObjects), t2, funcs, env)

\* BaseProvider.GetConfiguration.  env tells whether the template library
\* accepts the text (parseOk), renders it (executeOk) and whether the
\* rendered text decodes as TOML (decodeOk).
GetConfiguration(prov, defaultTemplateFile, funcMap, templateObjects, env) ==
    LET funcs == BuildFuncMap(funcMap)
        tc == getTemplateContent(prov, defaultTemplateFile)
        t0 == <<Event("getTemplateContent", defaultTemplateFile, tc.err = Nil)>> \o tc.io
        t1 == Append(t0, Event("Parse", tc.content, env.parseOk))
        t2 == Append(t1, Event("Execute", templateObjects, env.executeOk))
    IN  IF tc.err # Nil THEN Result(Nil, tc.err, t0, funcs)
        ELSE IF ~env.parseOk
        THEN Result(Nil, [from |-> "Parse", arg |-> tc.content], t1, funcs)
        ELSE IF ~env.executeOk
        THEN Result(Nil, [from |-> "Execute", arg |-> tc.content], t2, funcs)
        ELSE DebugAndDecode(prov, defaultTemplateFile,
                            Rendered(tc.content, templateObjects), t2, funcs, env)

CallerNames == {"split", "normalize", "lower", "getBackend"}
FuncMaps == UNION {[names -> {"caller"}] : names \in SUBSET CallerNames}
CallerFuncMap(m) == [n \in DOMAIN m |-> Func("caller", n)]
Envs == [parseOk : BOOLEAN, executeOk : BOOLEAN, decodeOk : BOOLEAN]
TemplateObjects == {"objs"}

InitConf ==
    /\ p \in {BaseProvider(f, <<>>, d) : f \in Filenames, d \in BOOLEAN}
    /\ call = NoCall
    /\ ret = Nil

GetConfigurationCall ==
    \E defaultTemplateFile \in TemplateFiles, m \in FuncMaps,
       templateObjects \in TemplateObjects, env \in Envs :
        /\ call = NoCall
        /\ call' = [op |-> "GetConfiguration",
                    defaultTemplateFile |-> defaultTemplateFile,
                    funcMap |-> CallerFuncMap(m),
                    templateObjects |-> templateObjects,
                    env |-> env]
        /\ ret' = GetConfiguration(p, defaultTemplateFile, CallerFuncMap(m),
                                   templateObjects, env)
        /\ UNCHANGED p

NextConf == GetConfigurationCall

SpecConf == InitConf /\ [][NextConf]_vars

ConfCalled == call.op = "GetConfiguration"

\* The events of the given kinds, in the order they happened.
IsParse(e) == e.ev = "Parse"
IsRead(e) == e.ev \in {"ReadFile", "Asset"}
IsStage(e) == e.ev \in {"getTemplateContent", "Parse", "Execute", "Decode"}
IsDebugf(e) == e.ev = "Debugf"
IsExecute(e) == e.ev = "Execute"
IsDecode(e) == e.ev = "Decode"

\* The template texts handed to the parser during the call.
ParsedTexts == {e.arg : e \in {ret.trace[i] : i \in {j \in 1..Len(ret.trace) : IsParse(ret.trace[j])}}}

EndsInTmpl(s) == \E prefix \in {SubSeq(s, 1, n) : n \in 0..Len(s)} : s = prefix \o TmplSuffix

\* C4: the template text is resolved by strict precedence.  A non-empty
\* Filename wins whatever defaultTemplateFile is: the text is that file's
\* contents, and a failed read is the call's error, with no asset lookup
\* and nothing parsed.  Otherwise a defaultTemplateFile ending in ".tmpl"
\* names an embedded asset, whose absence is the call's error.  Otherwise
\* the text is defaultTemplateFile itself and no read is made.
C4_TemplatePrecedence ==
    ConfCalled =>
        LET fn == p.Filename
            dtf == call.defaultTemplateFile
            reads == SelectSeq(ret.trace, IsRead)
        IN  /\ (fn # <<>> /\ fn \in DOMAIN FileSystem) =>
                  /\ ParsedTexts = {FileSystem[fn]}
                  /\ reads = <<Event("ReadFile", fn, TRUE)>>
            /\ (fn # <<>> /\ fn \notin DOMAIN FileSystem) =>
                  /\ ret.err = [from |-> "ReadFile", arg |-> fn]
                  /\ ret.configuration = Nil
                  /\ ParsedTexts = {}
                  /\ reads = <<Event("ReadFile", fn, FALSE)>>
            /\ (fn = <<>> /\ EndsInTmpl(dtf) /\ dtf \in DOMAIN Assets) =>
                  /\ ParsedTexts = {Assets[dtf]}
                  /\ reads = <<Event("Asset", dtf, TRUE)>>
            /\ (fn = <<>> /\ EndsInTmpl(dtf) /\ dtf \notin DOMAIN Assets) =>
                  /\ ret.err = [from |-> "Asset", arg |-> dtf]
                  /\ ret.configuration = Nil
                  /\ ParsedTexts = {}
            /\ (fn = <<>> /\ ~EndsInTmpl(dtf)) =>
                  /\ ParsedTexts = {dtf}
                  /\ reads = <<>>

\* The override file cannot be read while defaultTemplateFile names an
\* asset that exists.
C4_Witness ==
    /\ ConfCalled
    /\ p.Filename # <<>>
    /\ p.Filename \notin DOMAIN FileSystem
    /\ call.defaultTemplateFile \in DOMAIN Assets
    /\ ret.err # Nil

StageOrder == <<"getTemplateContent", "Parse", "Execute", "Decode">>

\* C5: the stages run once each in the order resolve, parse, execute,
\* decode; every stage before the last one run succeeded; the call returns
\* an error and a nil configuration exactly when the last stage run failed,
\* and that error is the failed stage's; a configuration is returned only
\* after all four stages succeeded, with a nil error.
C5_StagesAbortOnFirstFailure ==
    ConfCalled =>
        LET stages == SelectSeq(ret.trace, IsStage)
            n == Len(stages)
        IN  /\ n \in 1..4
            /\ \A k \in 1..n : stages[k].ev = StageOrder[k]
            /\ \A k \in 1..(n - 1) : stages[k].ok
            /\ (ret.err # Nil) = ~stages[n].ok
            /\ (ret.err # Nil) = (ret.configuration = Nil)
            /\ ret.err # Nil =>
                  IF n = 1 THEN ret.err.from \in {"ReadFile", "Asset"}
                  ELSE ret.err.from = StageOrder[n]
            /\ ret.configuration # Nil => (n = 4 /\ \A k \in 1..4 : stages[k].ok)
            /\ (~stages[1].ok) => SelectSeq(ret.trace, IsDecode) = <<>>

\* Parsing succeeded and execution failed.
C5_Witness ==
    /\ ConfCalled
    /\ ret.err # Nil
    /\ ret.err.from = "Execute"
    /\ call.env.decodeOk

\* C6: the DebugLogGeneratedTemplate flag changes nothing but the log: the
\* same call with the flag inverted runs the same stages and returns the
\* same configuration and error; the rendered text is logged exactly when
\* the flag is set and execution succeeded, once, and before the decoder
\* is called.
C6_DebugLogObservationalOnly ==
    ConfCalled =>
        LET other == GetConfiguration(
                        [p EXCEPT !.DebugLogGeneratedTemplate = ~p.DebugLogGeneratedTemplate],
                        call.defaultTemplateFile, call.funcMap,
                        call.templateObjects, call.env)
            logs == SelectSeq(ret.trace, IsDebugf)
            executed == SelectSeq(ret.trace, IsExecute)
        IN  /\ other.configuration = ret.configuration
            /\ other.err = ret.err
            /\ SelectSeq(other.trace, IsStage) = SelectSeq(ret.trace, IsStage)
            /\ (logs # <<>>) =
                  (p.DebugLogGeneratedTemplate /\ executed # <<>> /\ executed[1].ok)
            /\ Len(logs) <= 1
            /\ \A i, j \in 1..Len(ret.trace) :
                  (IsDebugf(ret.trace[i]) /\ IsDecode(ret.trace[j])) =>
                      (i < j /\ ret.trace[i].arg[2] = ret.trace[j].arg)

\* The flag is set, the template rendered, and decoding then failed.
C6_Witness ==
    /\ ConfCalled
    /\ p.DebugLogGeneratedTemplate
    /\ SelectSeq(ret.trace, IsDebugf) # <<>>
    /\ ret.err # Nil
    /\ ret.err.from = "Decode"

OverrideNames == {"tolower", "normalize", "split"}

\* The function each override name is bound to by GetConfiguration itself.
OverrideFunc(n) ==
    CASE n = "tolower" -> Func("strings", "ToLower")
      [] n = "normalize" -> Func("provider", "Normalize")
      [] n = "split" -> Func("provider", "split")

\* C7: the namespace bound to the template has as keys the union of the
\* builtin library's names, tolower/normalize/split and the caller's names;
\* every caller name resolves to the caller's function; every one of
\* tolower/normalize/split the caller does not supply resolves to the
\* override; every other name resolves to the builtin.
C7_FuncMapPrecedence ==
    ConfCalled =>
        /\ DOMAIN ret.funcs = SprigNames \cup OverrideNames \cup DOMAIN call.funcMap
        /\ \A n \in DOMAIN call.funcMap : ret.funcs[n] = call.funcMap[n]
        /\ \A n \in OverrideNames \ DOMAIN call.funcMap : ret.funcs[n] = OverrideFunc(n)
        /\ \A n \in SprigNames \ (OverrideNames \cup DOMAIN call.funcMap) :
              ret.funcs[n] = Func("sprig", n)

\* The caller redefines normalize and a builtin, adds a name of its own and
\* leaves split to the override, which shadows the builtin split.
C7_Witness ==
    /\ ConfCalled
    /\ {"normalize", "lower", "getBackend"} \subseteq DOMAIN call.funcMap
    /\ "split" \notin DOMAIN call.funcMap
    /\ "split" \in SprigNames
    /\ ret.funcs["split"] = Func("provider", "split")

(* ---------------------------------------------------------------------- *)
(* split, Normalize, ReverseStringSlice                                    *)
(* ---------------------------------------------------------------------- *)
Letters == {"a", "b"}
Numbers == {"1"}
NormalizeChars == Letters \cup Numbers \cup {".", "-"}
SplitChars == {"a", ","}
SliceElems == {"x", "y", "z"}
MaxSepLen == 2

\* strings.Index, 0-based; -1 when sep does not occur in s.
RECURSIVE IndexFrom(_, _, _)
IndexFrom(s, sep, i) ==
    IF i + Len(sep) > Len(s) THEN -1
    ELSE IF SubSeq(s, i + 1, i + Len(sep)) = sep THEN i
    ELSE IndexFrom(s, sep, i + 1)

Index(s, sep) == IndexFrom(s, sep, 0)

\* strings.explode with n < 0: one element per character.
explode(s) == [i \in 1..Len(s) |-> <<s[i]>>]

\* The loop of strings.genSplit: cut at each occurrence of sep, then
\* append what is left.
RECURSIVE genSplitLoop(_, _, _)
genSplitLoop(s, sep, a) ==
    LET m == Index(s, sep)
    IN  IF m < 0 THEN Append(a, s)
        ELSE genSplitLoop(SubSeq(s, m + Len(sep) + 1, Len(s)), sep,
                          Append(a, SubSeq(s, 1, m)))

\* strings.Split(s, sep)
Split(s, sep) ==
    IF sep = <<>> THEN explode(s) ELSE genSplitLoop(s, sep, <<>>)

\* Variant: the two arguments are passed to strings.Split in the order
\* they are received.
splitArgsSwapped(sep, s) == Split(sep, s)

\* split(sep, s)
split(sep, s) == Split(s, sep)

\* The predicate Normalize hands to FieldsFunc.
fargs(c) == c \notin Letters /\ c \notin Numbers

\* strings.FieldsFunc(s, fargs), scanning from position i; start is the
\* first position of the field being read, 0 when between fields.
RECURSIVE FieldsFuncFrom(_, _, _, _)
FieldsFuncFrom(s, i, start, fields) ==
    IF i > Len(s)
    THEN IF start > 0 THEN Append(fields, SubSeq(s, start, Len(s))) ELSE fields
    ELSE IF fargs(s[i])
    THEN IF start > 0
         THEN FieldsFuncFrom(s, i + 1, 0, Append(fields, SubSeq(s, start, i - 1)))
         ELSE FieldsFuncFrom(s, i + 1, 0, fields)
    ELSE FieldsFuncFrom(s, i + 1, IF start > 0 THEN start ELSE i, fields)

FieldsFunc(s) == FieldsFuncFrom(s, 1, 0, <<>>)

\* Variant of FieldsFunc in which a field still open at the end of the
\* string is not emitted.
RECURSIVE FieldsFuncNoFlush(_, _, _, _)
FieldsFuncNoFlush(s, i, start, fields) ==
    IF i > Len(s) THEN fields
    ELSE IF fargs(s[i])
    THEN IF start > 0
         THEN FieldsFuncNoFlush(s, i + 1, 0, Append(fields, SubSeq(s, start, i - 1)))
         ELSE FieldsFuncNoFlush(s, i + 1, 0, fields)
    ELSE FieldsFuncNoFlush(s, i + 1, IF start > 0 THEN start ELSE i, fields)

\* strings.Join
RECURSIVE Join(_, _)
Join(a, sep) ==
    IF Len(a) = 0 THEN <<>>
    ELSE IF Len(a) = 1 THEN a[1]
    ELSE a[1] \o sep \o Join(Tail(a), sep)

\* Variant: the last field is lost when the name does not end in a
\* separator.
NormalizeLastFieldLost(name) == Join(FieldsFuncNoFlush(name, 1, 0, <<>>), <<"-">>)

\* Normalize
Normalize(name) == Join(FieldsFunc(name), <<"-">>)

\* Variant: the loop stops one step early (i < j-1), leaving an adjacent
\* middle pair unswapped.
RECURSIVE ReverseLoopStopsEarly(_, _, _)
ReverseLoopStopsEarly(slice, i, j) ==
    IF i < j - 1
    THEN ReverseLoopStopsEarly([slice EXCEPT ![i] = slice[j], ![j] = slice[i]], i + 1, j - 1)
    ELSE slice

\* The loop of ReverseStringSlice, on 1-based positions i and j.
RECURSIVE ReverseLoop(_, _, _)
ReverseLoop(slice, i, j) ==
    IF i < j
    THEN ReverseLoop([slice EXCEPT ![i] = slice[j], ![j] = slice[i]], i + 1, j - 1)
    ELSE slice

\* ReverseStringSlice: the contents of *slice after the call.
ReverseStringSlice(slice) == ReverseLoop(slice, 1, Len(slice))

InitStr ==
    /\ p = BaseProvider(<<>>, <<>>, FALSE)
    /\ call = NoCall
    /\ ret = Nil

NormalizeCall ==
    \E name \in SeqsUpTo(NormalizeChars, MaxStrLen) :
        /\ call = NoCall
        /\ call' = [op |-> "Normalize", name |-> name]
        /\ ret' = Normalize(name)
        /\ UNCHANGED p

splitCall ==
    \E sep \in SeqsUpTo(SplitChars, MaxSepLen), s \in SeqsUpTo(SplitChars, MaxStrLen) :
        /\ call = NoCall
        /\ call' = [op |-> "split", sep |-> sep, s |-> s]
        /\ ret' = split(sep, s)
        /\ UNCHANGED p

ReverseStringSliceCall ==
    \E slice \in SeqsUpTo(SliceElems, MaxSliceLen) :
        /\ call = NoCall
        /\ call' = [op |-> "ReverseStringSlice", slice |-> slice]
        /\ ret' = ReverseStringSlice(slice)
        /\ UNCHANGED p

NextStr == NormalizeCall \/ splitCall \/ ReverseStringSliceCall

SpecStr == InitStr /\ [][NextStr]_vars

NormalizeCalled == call.op = "Normalize"
IsAlnum(c) == c \in Letters \cup Numbers
Dash == "-"

\* C8: Normalize is idempotent: normalizing its result changes nothing.
\* The result consists of the letters and digits of the name, in order,
\* with single "-" between fragments: no other character, no leading,
\* trailing or doubled "-".
C8_NormalizeIdempotent ==
    NormalizeCalled =>
        /\ Normalize(ret) = ret
        /\ \A i \in 1..Len(ret) : IsAlnum(ret[i]) \/ ret[i] = Dash
        /\ SelectSeq(ret, IsAlnum) = SelectSeq(call.name, IsAlnum)
        /\ Len(ret) > 0 => (ret[1] # Dash /\ ret[Len(ret)] # Dash)
        /\ \A i \in 1..(Len(ret) - 1) : ~(ret[i] = Dash /\ ret[i + 1] = Dash)

\* A name with a leading separator and a run of two separators inside.
C8_Witness ==
    /\ NormalizeCalled
    /\ Len(call.name) >= 4
    /\ fargs(call.name[1])
    /\ Len(ret) = 3
    /\ ret[2] = Dash

ReverseCalled == call.op = "ReverseStringSlice"

\* C9: after ReverseStringSlice the slice has the same length n and holds
\* at position i the element that was at position n-1-i (0-based), so
\* slices of length 0 or 1 are unchanged and the middle element of an
\* odd-length slice stays in place.
C9_ReverseInPlace ==
    ReverseCalled =>
        LET n == Len(call.slice)
        IN  /\ Len(ret) = n
            /\ \A i \in 1..n : ret[i] = call.slice[n + 1 - i]
            /\ n <= 1 => ret = call.slice
            /\ n % 2 = 1 => ret[(n + 1) \div 2] = call.slice[(n + 1) \div 2]

\* A slice of at least three elements whose ends differ.
C9_Witness ==
    /\ ReverseCalled
    /\ Len(call.slice) >= 3
    /\ call.slice[1] # call.slice[Len(call.slice)]
    /\ ret # call.slice

splitCalled == call.op = "split"

\* sep occurs in s as a substring (the empty string occurs in every string).
Occurs(sep, s) == \E i \in 0..(Len(s) - Len(sep)) : SubSeq(s, i + 1, i + Len(sep)) = sep

\* C10 as stated: for every sep and s, split(sep, s) is [s] when sep does
\* not occur in s, and is [""] when s is empty.
C10_Original ==
    splitCalled =>
        /\ ~Occurs(call.sep, call.s) => ret = <<call.s>>
        /\ call.s = <<>> => ret = << <<>> >>

\* C10 amended: split(sep, s) is [s] when sep does not occur in s; when s
\* is empty it is [""] if sep is not empty, and the empty sequence if sep
\* is empty as well.
C10_Amended ==
    splitCalled =>
        /\ ~Occurs(call.sep, call.s) => ret = <<call.s>>
        /\ (call.s = <<>> /\ call.sep # <<>>) => ret = << <<>> >>
        /\ (call.s = <<>> /\ call.sep = <<>>) => ret = <<>>

\* A non-empty separator that the non-empty string does not contain.
C10_Witness ==
    /\ splitCalled
    /\ call.sep # <<>>
    /\ call.s # <<>>
    /\ ~Occurs(call.sep, call.s)
    /\ ret = <<call.s>>

====
